---- MODULE Spec2Model ----
(***************************************************************************)
(* Football Match Day Interactive Dashboard (src/app.py).                  *)
(*                                                                         *)
(* The script is re-executed from top to bottom after every change of a    *)
(* sidebar widget.  The state is the sheet on disk, the dataset kept by    *)
(* st.cache_data, the four widget values and the values the last execution *)
(* of the script bound.  Each widget action is one widget change followed  *)
(* by the whole re-execution.                                              *)
(*                                                                         *)
(* Python values that may be None are sequences of length <= 1:            *)
(* None is << >> and a bound value v is << v >>.                           *)
(* Dates are match-day ordinals (1 = 2024-01-01, 2 = 2024-01-08, ...).     *)
(* "Average Goals per Match" is kept in hundredths (1.0 is 100).           *)
(***************************************************************************)
EXTENDS Integers, Sequences, FiniteSets, TLC

----------------------------------------------------------------------------
(* Bounds of the model *)

NumRecords == 2
MaxDate == 2
MaxGoals == 1
MaxFouls == 1
MaxGoalsTop == 1

(* nlargest(6, 'TotalGoals') *)
TopN == 6

(* Team names in the order pandas sorts group keys (lexicographic). *)
TeamNames == <<"TeamS", "TeamT", "TeamU", "TeamV", "TeamW", "TeamX", "TeamY", "TeamZ">>
LeagueNames == <<"LeagueA", "LeagueB">>

None == << >>
Some(v) == << v >>

----------------------------------------------------------------------------
(* pandas helpers *)

Range(s) == {s[i] : i \in 1..Len(s)}

RECURSIVE SumSeq(_)
SumSeq(s) == IF Len(s) = 0 THEN 0 ELSE s[1] + SumSeq(SubSeq(s, 2, Len(s)))

Col(d, c) == [i \in 1..Len(d) |-> d[i][c]]

(* Series.unique(): the distinct values in order of first appearance *)
RECURSIVE unique(_)
unique(s) ==
    IF Len(s) = 0 THEN << >>
    ELSE LET init == unique(SubSeq(s, 1, Len(s) - 1))
             last == s[Len(s)]
         IN  IF last \in Range(init) THEN init ELSE Append(init, last)

Min(S) == CHOOSE x \in S : \A y \in S : x <= y
Max(S) == CHOOSE x \in S : \A y \in S : x >= y

HomeRows(d, team) == SelectSeq(d, LAMBDA r : r.HomeTeam = team)
AwayRows(d, team) == SelectSeq(d, LAMBDA r : r.AwayTeam = team)

----------------------------------------------------------------------------
(* Sidebar: the options the widgets offer *)

leagues(d) == unique(Col(d, "League"))

league_teams(d, league) == SelectSeq(d, LAMBDA r : r.League = league)

available_teams(d, league) ==
    unique(Col(league_teams(d, league), "HomeTeam") \o Col(league_teams(d, league), "AwayTeam"))

team2_options(d, league) == <<"None">> \o available_teams(d, league)

default_date_range(d) == << Min(Range(Col(d, "Date"))), Max(Range(Col(d, "Date"))) >>

----------------------------------------------------------------------------
(* Filters *)

InRangeExclusive(r, dr) == r.Date > dr[1] /\ r.Date < dr[2]
InRange(r, dr) == r.Date >= dr[1] /\ r.Date <= dr[2]

TeamFilter(d, team, dr) ==
    SelectSeq(d, LAMBDA r : (r.HomeTeam = team \/ r.AwayTeam = team) /\ InRange(r, dr))

(* Lines 239-241 *)
filtered_league_data(d, league, dr) ==
    SelectSeq(d, LAMBDA r : r.League = league /\ InRange(r, dr))

----------------------------------------------------------------------------
(* calculate_insights *)

(* 2^e mod m *)
RECURSIVE PowMod2(_, _)
PowMod2(e, m) == IF e = 0 THEN 1 % m ELSE (2 * PowMod2(e - 1, m)) % m

(* t with 2^t <= g / m < 2^(t+1), for g > 0 *)
RECURSIVE Log2Floor(_, _)
Log2Floor(g, m) ==
    IF g >= 2 * m THEN 1 + Log2Floor(g, 2 * m)
    ELSE IF g < m THEN Log2Floor(2 * g, m) - 1
    ELSE 0

(* round(x, 2), in hundredths, of the double x = g / m.  total_goals is a  *)
(* numpy integer, so x is a numpy float64 and round() is numpy's:          *)
(* rint(x * 100) / 100, every step rounded to a double.  Off a halfway     *)
(* case this is the nearest hundredth.  When g / m lies halfway between k  *)
(* and k + 1 hundredths, x = q / 2^e with q the 53-bit integer nearest to  *)
(* g * 2^e / m, and d = q * m - g * 2^e is the error of x scaled by        *)
(* m * 2^e.  The product x * 100 is rounded to 53 bits: it lands on        *)
(* k + 1/2 exactly (and rint goes to the even neighbour) unless its ulp is *)
(* 64 units of x (mantissa of x below 1.28) and 100 * |d| / m exceeds half *)
(* of that; then it lands on the side of the error of x.                   *)
Round2(g, m) ==
    IF g = 0 THEN 0
    ELSE
    LET k == (100 * g) \div m
        rem == (100 * g) % m
    IN  IF 2 * rem < m THEN k
        ELSE IF 2 * rem > m THEN k + 1
        ELSE LET t == Log2Floor(g, m)
                 r == ((g % m) * PowMod2(52 - t, m)) % m
                 d == IF 2 * r < m THEN 0 - r ELSE m - r
                 low == IF t >= 0 THEN 100 * g < 128 * m * (2 ^ t)
                                  ELSE 100 * g * (2 ^ (0 - t)) < 128 * m
                 absd == IF d < 0 THEN 0 - d ELSE d
             IN  IF low /\ 100 * absd > 32 * m
                 THEN (IF d > 0 THEN k + 1 ELSE k)
                 ELSE (IF k % 2 = 0 THEN k ELSE k + 1)

WinsOfHomeOnly(fd, team) ==
    Len(SelectSeq(fd, LAMBDA r : r.HomeTeam = team /\ r.HomeGoals > r.AwayGoals))

WinsOf(fd, team) ==
    Len(SelectSeq(fd, LAMBDA r : r.HomeTeam = team /\ r.HomeGoals > r.AwayGoals))
    + Len(SelectSeq(fd, LAMBDA r : r.AwayTeam = team /\ r.AwayGoals > r.HomeGoals))

LossesOf(fd, team) ==
    Len(SelectSeq(fd, LAMBDA r : r.HomeTeam = team /\ r.HomeGoals < r.AwayGoals))
    + Len(SelectSeq(fd, LAMBDA r : r.AwayTeam = team /\ r.AwayGoals < r.HomeGoals))

(* Line 87 *)
DrawsOfIgnoringLosses(total_matches, wins, losses) == total_matches - wins
DrawsOf(total_matches, wins, losses) == total_matches - wins - losses

(* Line 80; the unguarded quotient of an empty subset is not a number (-1) *)
average_goals_unguarded(total_goals, total_matches) ==
    IF total_matches > 0 THEN Round2(total_goals, total_matches) ELSE -1
average_goals(total_goals, total_matches) ==
    IF total_matches > 0 THEN Round2(total_goals, total_matches) ELSE 0

calculate_insights(filtered_df, team) ==
    LET total_goals == SumSeq(Col(HomeRows(filtered_df, team), "HomeGoals"))
                       + SumSeq(Col(AwayRows(filtered_df, team), "AwayGoals"))
        total_matches == Len(filtered_df)
        avg_goals_per_match == average_goals(total_goals, total_matches)
        total_fouls == SumSeq(Col(HomeRows(filtered_df, team), "HomeFouls"))
                       + SumSeq(Col(AwayRows(filtered_df, team), "AwayFouls"))
        wins == WinsOf(filtered_df, team)
        losses == LossesOf(filtered_df, team)
        draws == DrawsOf(total_matches, wins, losses)
        clean_sheets ==
            Len(SelectSeq(filtered_df,
                          LAMBDA r : (r.HomeTeam = team /\ r.AwayGoals = 0)
                                     \/ (r.AwayTeam = team /\ r.HomeGoals = 0)))
    IN  [TotalMatches |-> total_matches,
         Wins |-> wins,
         Losses |-> losses,
         Draws |-> draws,
         CleanSheets |-> clean_sheets,
         TotalGoalsScored |-> total_goals,
         AverageGoalsPerMatch |-> avg_goals_per_match,
         TotalFouls |-> total_fouls]

----------------------------------------------------------------------------
(* Head-to-head block *)

(* Line 129: the mask is applied to df itself, not to a filtered frame *)
head_to_head_frame_filtered(d, league, dr) == filtered_league_data(d, league, dr)
head_to_head_frame(d, league, dr) == d

head_to_head_data(d, team1, team2) ==
    SelectSeq(d, LAMBDA r : (r.HomeTeam = team1 /\ r.AwayTeam = team2)
                            \/ (r.HomeTeam = team2 /\ r.AwayTeam = team1))

head_to_head_draws_or_home_win(h) == Len(SelectSeq(h, LAMBDA r : r.HomeGoals >= r.AwayGoals))
head_to_head_draws(h) == Len(SelectSeq(h, LAMBDA r : r.HomeGoals = r.AwayGoals))

----------------------------------------------------------------------------
(* Top scoring teams *)


(* groupby(key)[val].sum().reset_index(), renamed to Team / TotalGoals:    *)
(* one row per key, keys in sorted order.                                  *)
GroupSum(rows, key, val) ==
    LET keys == SelectSeq(TeamNames, LAMBDA t : t \in Range(Col(rows, key)))
    IN  [i \in 1..Len(keys) |->
            [Team |-> keys[i],
             TotalGoals |-> SumSeq(Col(SelectSeq(rows, LAMBDA r : r[key] = keys[i]), val))]]

(* DataFrame.nlargest(n, 'TotalGoals'), keep='first': descending, equal    *)
(* values in their original order.                                         *)
head_rows(n, rows) == SubSeq(rows, 1, IF n < Len(rows) THEN n ELSE Len(rows))

RECURSIVE nlargest(_, _)
nlargest(n, rows) ==
    IF n = 0 \/ Len(rows) = 0 THEN << >>
    ELSE LET top == Max(Range(Col(rows, "TotalGoals")))
             i == Min({j \in 1..Len(rows) : rows[j].TotalGoals = top})
         IN  <<rows[i]>> \o nlargest(n - 1, SubSeq(rows, 1, i - 1) \o SubSeq(rows, i + 1, Len(rows)))

top_scorers_of(d, league, dr) ==
    LET fl == filtered_league_data(d, league, dr)
        total_goals == GroupSum(fl, "HomeTeam", "HomeGoals")
        away_goals == GroupSum(fl, "AwayTeam", "AwayGoals")
        merged == GroupSum(total_goals \o away_goals, "Team", "TotalGoals")
    IN  nlargest(TopN, merged)

----------------------------------------------------------------------------
(* One execution of the script, top to bottom *)

(* Lines 22-27.  st.cache_data keeps the value load_data returned on its   *)
(* first call and hands it out on every later call of the process; the     *)
(* sheet is read only when nothing is kept yet.                            *)
load_data_uncached(cache, sheet) == sheet
load_data(cache, sheet) == IF cache # None THEN cache[1] ELSE sheet

(* Lines 134-138: wins of one side over the direct fixtures *)
team_wins_home_only(h, team) ==
    Len(SelectSeq(h, LAMBDA r : r.HomeTeam = team /\ r.HomeGoals > r.AwayGoals))

team_wins(h, team) ==
    Len(SelectSeq(h, LAMBDA r : r.HomeTeam = team /\ r.HomeGoals > r.AwayGoals))
    + Len(SelectSeq(h, LAMBDA r : r.AwayTeam = team /\ r.AwayGoals > r.HomeGoals))

(* Lines 121-144.  team1_losses and team2_losses are bound only inside the *)
(* conditional; bound |-> FALSE leaves the two names undefined.            *)
head_to_head(d, team1, team2) ==
    IF team1 # "None" /\ team2 # "None"
    THEN LET h == head_to_head_data(d, team1, team2)
             w1 == team_wins(h, team1)
             w2 == team_wins(h, team2)
             dr == head_to_head_draws(h)
             total_matches == Len(h)
         IN  [team1_wins |-> Some(w1), team2_wins |-> Some(w2), draws |-> Some(dr),
              bound |-> TRUE,
              team1_losses |-> Some(total_matches - w1 - dr),
              team2_losses |-> Some(total_matches - w2 - dr)]
    ELSE [team1_wins |-> None, team2_wins |-> None, draws |-> None,
          bound |-> FALSE, team1_losses |-> None, team2_losses |-> None]

(* Line 149 reads team1_losses and team2_losses *)
fault_at_chart(hh) == IF hh.bound THEN "" ELSE "NameError"

(* Line 150 rebinds the name: draws = [draws, draws] *)
chart_draws(count) == <<count[1], count[1]>>

(* Line 51 reads date_range[1]: a range of which only the start has been   *)
(* picked has one element.                                                 *)
fault_at_filter(dr) == IF Len(dr) < 2 THEN "IndexError" ELSE ""

SectionsBeforeChart(team2) ==
    <<"Filtered Match Data", "Match Insights Comparison">>
    \o (IF team2 # "None" THEN <<"Head-to-Head Comparison">> ELSE << >>)

SectionsChartsToPie ==
    <<"Head-to-Head Chart", "Goals and Fouls Comparison", "Fouls Comparison">>

SectionsAfterPie(league) ==
    (IF league # "" THEN <<"Top Scoring Teams">> ELSE << >>) \o <<"Footer">>

(* Lines 212-216 and 224-228: ax.pie([home_fouls, away_fouls]) of a frame  *)
(* that is not empty.  pie divides the values by their sum; with both 0    *)
(* the fractions are not numbers and building the wedge raises ValueError. *)
fault_at_pie(fd, team) ==
    IF Len(fd) > 0
       /\ SumSeq(Col(HomeRows(fd, team), "HomeFouls"))
          + SumSeq(Col(AwayRows(fd, team), "AwayFouls")) = 0
    THEN "ValueError" ELSE ""

(* Team 1's pie is drawn first, team 2's only when team 2 is selected *)
fault_at_pies(fd1, team1, fd2, team2) ==
    IF fault_at_pie(fd1, team1) # "" THEN fault_at_pie(fd1, team1)
    ELSE IF fd2 # None THEN fault_at_pie(fd2[1], team2)
    ELSE ""

(* The pass from line 49 on, the date range having both ends.  NameError   *)
(* at line 149 ends it before the chart; ValueError at line 216 or 228     *)
(* ends it under the "Fouls Comparison" subheader, top_scorers unbound.    *)
RenderFrom49(d, league, team1, team2, dr) ==
    LET fd1 == TeamFilter(d, team1, dr)
        fd2 == IF team2 # "None" THEN Some(TeamFilter(d, team2, dr)) ELSE None
        hh == head_to_head(head_to_head_frame(d, league, dr), team1, team2)
        fault0 == fault_at_chart(hh)
        fault1 == IF fault0 # "" THEN fault0 ELSE fault_at_pies(fd1, team1, fd2, team2)
    IN  [df |-> d,
         filtered_df1 |-> fd1,
         filtered_df2 |-> fd2,
         insights1 |-> calculate_insights(fd1, team1),
         insights2 |-> IF fd2 # None THEN Some(calculate_insights(fd2[1], team2)) ELSE None,
         team1_wins |-> hh.team1_wins,
         team2_wins |-> hh.team2_wins,
         draws |-> IF fault0 = "" THEN chart_draws(hh.draws) ELSE hh.draws,
         team1_losses |-> hh.team1_losses,
         team2_losses |-> hh.team2_losses,
         top_scorers |-> IF fault1 = "" /\ league # ""
                         THEN Some(top_scorers_of(d, league, dr)) ELSE None,
         rendered |-> SectionsBeforeChart(team2)
                      \o (IF fault0 = "" THEN SectionsChartsToPie ELSE << >>)
                      \o (IF fault1 = "" THEN SectionsAfterPie(league) ELSE << >>),
         fault |-> fault1]

(* One execution with df bound to d at line 30.  With IndexError at line   *)
(* 51 nothing after the sidebar is bound or written.                       *)
RenderPass(d, league, team1, team2, dr) ==
    IF fault_at_filter(dr) # ""
    THEN [df |-> d,
          filtered_df1 |-> None, filtered_df2 |-> None,
          insights1 |-> None, insights2 |-> None,
          team1_wins |-> None, team2_wins |-> None, draws |-> None,
          team1_losses |-> None, team2_losses |-> None,
          top_scorers |-> None, rendered |-> << >>,
          fault |-> fault_at_filter(dr)]
    ELSE RenderFrom49(d, league, team1, team2, dr)

----------------------------------------------------------------------------
(* Input domains *)

Dates == 1..MaxDate

(* Both ends picked: st.date_input returns them in order *)
CompleteRanges == {dr \in Dates \X Dates : dr[1] <= dr[2]}

(* Only the start picked: st.date_input returns a one-element tuple *)
StartedRanges == {<<lo>> : lo \in Dates}

(* Every value st.date_input returns *)
DateRanges == CompleteRanges \cup StartedRanges

(* Match records over the given teams; the two team names are distinct    *)
Records(lgs, teams, dates, goals, fouls) ==
    {r \in [League : lgs, HomeTeam : teams, AwayTeam : teams, Date : dates,
            HomeGoals : goals, AwayGoals : goals,
            HomeFouls : fouls, AwayFouls : fouls] :
        r.HomeTeam # r.AwayTeam}

RECURSIVE SeqsOfLen(_, _)
SeqsOfLen(S, n) ==
    IF n = 0 THEN {<< >>}
    ELSE {Append(s, x) : s \in SeqsOfLen(S, n - 1), x \in S}

MainTeams == {"TeamX", "TeamY", "TeamZ"}

(* The worked example: TeamX v TeamY 2-1 (fouls 3-2), TeamY v TeamX 0-0   *)
(* (fouls 1-1).                                                            *)
ExampleDf ==
    << [League |-> "LeagueA", HomeTeam |-> "TeamX", AwayTeam |-> "TeamY", Date |-> 1,
        HomeGoals |-> 2, AwayGoals |-> 1, HomeFouls |-> 3, AwayFouls |-> 2],
       [League |-> "LeagueA", HomeTeam |-> "TeamY", AwayTeam |-> "TeamX", Date |-> 2,
        HomeGoals |-> 0, AwayGoals |-> 0, HomeFouls |-> 1, AwayFouls |-> 1] >>

(* Datasets of NumRecords fixtures.  Up to renaming of leagues and teams   *)
(* the first fixture is TeamX v TeamY in LeagueA; its fouls are those of   *)
(* the worked example.                                                     *)
FirstRecords ==
    {[League |-> "LeagueA", HomeTeam |-> "TeamX", AwayTeam |-> "TeamY", Date |-> dt,
      HomeGoals |-> hg, AwayGoals |-> ag, HomeFouls |-> 3, AwayFouls |-> 2] :
        dt \in Dates, hg \in 0..MaxGoals, ag \in 0..MaxGoals}

MainDatasets ==
    {<<r1>> \o rest :
        r1 \in FirstRecords,
        rest \in SeqsOfLen(Records(Range(LeagueNames), MainTeams, Dates, 0..MaxGoals, 0..MaxFouls),
                           NumRecords - 1)}
    \cup {ExampleDf}

----------------------------------------------------------------------------
(* State *)

VARIABLES match_data, data_cache, df,
          selected_league, selected_team1, selected_team2, date_range,
          filtered_df1, filtered_df2, insights1, insights2,
          team1_wins, team2_wins, draws, team1_losses, team2_losses,
          top_scorers, rendered, fault,
          noted

selections == <<selected_league, selected_team1, selected_team2, date_range>>
outputs == <<filtered_df1, filtered_df2, insights1, insights2,
             team1_wins, team2_wins, draws, team1_losses, team2_losses,
             top_scorers, rendered, fault>>
vars == <<match_data, data_cache, df, selections, outputs, noted>>

(* What a pass binds *)
PassOutputs(rp) ==
    <<rp.filtered_df1, rp.filtered_df2, rp.insights1, rp.insights2,
      rp.team1_wins, rp.team2_wins, rp.draws, rp.team1_losses, rp.team2_losses,
      rp.top_scorers, rp.rendered, rp.fault>>

(* noted is a history variable the script never reads: an earlier pass     *)
(* (its selections, its df and what it bound) kept for comparison, or None *)
(* when the session keeps none.  Each pass either leaves the kept pass,    *)
(* which from then on is an earlier one (later), or takes its place.       *)
Remembered(kept, pass) ==
    IF kept = None THEN {None}
    ELSE {Some([kept[1] EXCEPT !.later = TRUE]), Some(pass)}

(* The script runs with the widget values league, team1, team2, dr *)
Rerun(league, team1, team2, dr) ==
    \E rp \in {RenderPass(load_data(data_cache, match_data), league, team1, team2, dr)} :
        /\ data_cache' = Some(load_data(data_cache, match_data))
        /\ selected_league' = league
        /\ selected_team1' = team1
        /\ selected_team2' = team2
        /\ date_range' = dr
        /\ df' = rp.df
        /\ filtered_df1' = rp.filtered_df1
        /\ filtered_df2' = rp.filtered_df2
        /\ insights1' = rp.insights1
        /\ insights2' = rp.insights2
        /\ team1_wins' = rp.team1_wins
        /\ team2_wins' = rp.team2_wins
        /\ draws' = rp.draws
        /\ team1_losses' = rp.team1_losses
        /\ team2_losses' = rp.team2_losses
        /\ top_scorers' = rp.top_scorers
        /\ rendered' = rp.rendered
        /\ fault' = rp.fault
        /\ noted' \in Remembered(noted, [selections |-> <<league, team1, team2, dr>>,
                                         df |-> rp.df, outputs |-> PassOutputs(rp),
                                         later |-> FALSE])
        /\ UNCHANGED match_data

(* First execution, the sheet holding d: nothing is cached, every widget   *)
(* is at its default.                                                      *)
FirstRun(d) ==
    \E rp \in {RenderPass(load_data(None, d), leagues(d)[1],
                            available_teams(d, leagues(d)[1])[1], "None",
                            default_date_range(d))} :
        /\ match_data = d
        /\ data_cache = Some(load_data(None, d))
        /\ selected_league = leagues(d)[1]
        /\ selected_team1 = available_teams(d, leagues(d)[1])[1]
        /\ selected_team2 = "None"
        /\ date_range = default_date_range(d)
        /\ df = rp.df
        /\ filtered_df1 = rp.filtered_df1
        /\ filtered_df2 = rp.filtered_df2
        /\ insights1 = rp.insights1
        /\ insights2 = rp.insights2
        /\ team1_wins = rp.team1_wins
        /\ team2_wins = rp.team2_wins
        /\ draws = rp.draws
        /\ team1_losses = rp.team1_losses
        /\ team2_losses = rp.team2_losses
        /\ top_scorers = rp.top_scorers
        /\ rendered = rp.rendered
        /\ fault = rp.fault

(* Seven teams in one league: TeamS plays at home and away.  The second   *)
(* fixture ended 1-0; the last fixture may fall in the other league and on *)
(* any date.  Each side commits a foul in every fixture, so the pie of a   *)
(* frame that is not empty is drawn.                                       *)
TopFixtures == << <<"TeamS", "TeamT">>, <<"TeamU", "TeamV">>,
                  <<"TeamW", "TeamX">>, <<"TeamY", "TeamS">> >>

TopRecords(i, lgs, dates, homeGoals, awayGoals) ==
    {[League |-> lg, HomeTeam |-> TopFixtures[i][1], AwayTeam |-> TopFixtures[i][2],
      Date |-> dt, HomeGoals |-> hg, AwayGoals |-> ag, HomeFouls |-> 1, AwayFouls |-> 1] :
        lg \in lgs, dt \in dates, hg \in homeGoals, ag \in awayGoals}

TopDatasets ==
    {<<a, b, c, e>> :
        a \in TopRecords(1, {"LeagueA"}, {1}, 0..MaxGoalsTop, 0..MaxGoalsTop),
        b \in TopRecords(2, {"LeagueA"}, {1}, {1}, {0}),
        c \in TopRecords(3, {"LeagueA"}, {1}, 0..MaxGoalsTop, 0..MaxGoalsTop),
        e \in TopRecords(4, Range(LeagueNames), Dates, 0..MaxGoalsTop, 0..MaxGoalsTop)}

Init == \E d \in MainDatasets : FirstRun(d) /\ noted = None

InitTop == \E d \in TopDatasets : FirstRun(d) /\ noted = None

(* Sessions in which match_data.xlsx is replaced while the app runs.  The  *)
(* first fixture is that of the worked example, the second is a goalless   *)
(* draw of any two teams in either league; the first pass is kept in       *)
(* noted.                                                                  *)
SessionDatasets ==
    {<<ExampleDf[1], r>> :
        r \in Records(Range(LeagueNames), MainTeams, Dates, {0}, {1})}

OtherSheet ==
    << [League |-> "LeagueB", HomeTeam |-> "TeamZ", AwayTeam |-> "TeamX", Date |-> 2,
        HomeGoals |-> 1, AwayGoals |-> 1, HomeFouls |-> 1, AwayFouls |-> 1] >>

ThisPass == [selections |-> selections, df |-> df, outputs |-> outputs, later |-> FALSE]

InitSession == \E d \in SessionDatasets : FirstRun(d) /\ noted = Some(ThisPass)

(* The file on disk gets other content; no pass runs (streamlit reruns on  *)
(* widget changes and on changes of the script, not of a data file).       *)
SheetReplaced ==
    /\ match_data # OtherSheet
    /\ match_data' = OtherSheet
    /\ UNCHANGED <<data_cache, df, selections, outputs, noted>>

(* A selectbox keeps its value while its option list is the same and      *)
(* falls back to its default (index 0, "None") when the list changes.     *)
SelectLeague ==
    \E league \in Range(leagues(df)) :
        /\ league # selected_league
        /\ IF available_teams(df, league) = available_teams(df, selected_league)
           THEN Rerun(league, selected_team1, selected_team2, date_range)
           ELSE Rerun(league, available_teams(df, league)[1], "None", date_range)

SelectTeam1 ==
    \E team \in Range(available_teams(df, selected_league)) :
        /\ team # selected_team1
        /\ Rerun(selected_league, team, selected_team2, date_range)

SelectTeam2 ==
    \E team \in Range(team2_options(df, selected_league)) :
        /\ team # selected_team2
        /\ Rerun(selected_league, selected_team1, team, date_range)

(* First click of a range selection: the widget holds the start alone and *)
(* the script reruns.                                                      *)
SelectDateRangeStart ==
    \E dr \in StartedRanges :
        /\ dr # date_range
        /\ Rerun(selected_league, selected_team1, selected_team2, dr)

(* Second click: the end, not before the start, completes the range.       *)
SelectDateRangeEnd ==
    \E dr \in CompleteRanges :
        /\ Len(date_range) = 1
        /\ dr[1] = date_range[1]
        /\ Rerun(selected_league, selected_team1, selected_team2, dr)

Next ==
    SelectLeague \/ SelectTeam1 \/ SelectTeam2 \/ SelectDateRangeStart \/ SelectDateRangeEnd

Spec == Init /\ [][Next]_vars

SpecTop == InitTop /\ [][Next]_vars

NextSession == Next \/ SheetReplaced

SpecSession == InitSession /\ [][NextSession]_vars

----------------------------------------------------------------------------
(* Vocabulary of the properties *)

AllTeams == Range(TeamNames)

RECURSIVE Pick(_, _)
Pick(d, I) ==
    IF Len(d) = 0 THEN << >>
    ELSE LET front == Pick(SubSeq(d, 1, Len(d) - 1), I)
         IN  IF Len(d) \in I THEN Append(front, d[Len(d)]) ELSE front

(* Every record subset of d, in row order *)
SubFrames(d) == {Pick(d, I) : I \in SUBSET (1..Len(d))}

Count(s, r) == Cardinality({i \in 1..Len(s) : s[i] = r})

IsPresent(v) == Len(v) = 1

(* The last pass got past line 51: filtered_df1 and insights1 are bound *)
PastFilter == fault # "IndexError"

(* The last pass got past line 150: the head-to-head names are bound *)
PastChart == fault \notin {"IndexError", "NameError"}

(* The last pass ran to the end *)
Completed == fault = ""

ZeroSummary ==
    [TotalMatches |-> 0, Wins |-> 0, Losses |-> 0, Draws |-> 0, CleanSheets |-> 0,
     TotalGoalsScored |-> 0, AverageGoalsPerMatch |-> 0, TotalFouls |-> 0]

(* The reference single scan of section 4.1: what one record adds for team *)
Contribution(r, team) ==
    IF r.HomeTeam = team
    THEN [Goals |-> r.HomeGoals, Fouls |-> r.HomeFouls,
          Win |-> IF r.HomeGoals > r.AwayGoals THEN 1 ELSE 0,
          Loss |-> IF r.HomeGoals < r.AwayGoals THEN 1 ELSE 0,
          Clean |-> IF r.AwayGoals = 0 THEN 1 ELSE 0]
    ELSE IF r.AwayTeam = team
    THEN [Goals |-> r.AwayGoals, Fouls |-> r.AwayFouls,
          Win |-> IF r.AwayGoals > r.HomeGoals THEN 1 ELSE 0,
          Loss |-> IF r.AwayGoals < r.HomeGoals THEN 1 ELSE 0,
          Clean |-> IF r.HomeGoals = 0 THEN 1 ELSE 0]
    ELSE [Goals |-> 0, Fouls |-> 0, Win |-> 0, Loss |-> 0, Clean |-> 0]

RECURSIVE Scan(_, _)
Scan(S, team) ==
    IF Len(S) = 0
    THEN [Goals |-> 0, Fouls |-> 0, Win |-> 0, Loss |-> 0, Clean |-> 0]
    ELSE LET acc == Scan(SubSeq(S, 1, Len(S) - 1), team)
             c == Contribution(S[Len(S)], team)
         IN  [Goals |-> acc.Goals + c.Goals, Fouls |-> acc.Fouls + c.Fouls,
              Win |-> acc.Win + c.Win, Loss |-> acc.Loss + c.Loss,
              Clean |-> acc.Clean + c.Clean]

Abs(x) == IF x < 0 THEN 0 - x ELSE x

(* a (in hundredths) is g / m to 2 decimals *)
IsQuotientTo2Decimals(a, g, m) == 2 * Abs(100 * g - a * m) <= m

MatchesScan(ins, S, team) ==
    LET sc == Scan(S, team)
    IN  /\ ins.TotalMatches = Len(S)
        /\ ins.TotalGoalsScored = sc.Goals
        /\ ins.TotalFouls = sc.Fouls
        /\ ins.Wins = sc.Win
        /\ ins.Losses = sc.Loss
        /\ ins.Draws = Len(S) - sc.Win - sc.Loss
        /\ ins.CleanSheets = sc.Clean
        /\ IF Len(S) > 0
           THEN IsQuotientTo2Decimals(ins.AverageGoalsPerMatch, sc.Goals, Len(S))
           ELSE ins.AverageGoalsPerMatch = 0

ExampleSummary ==
    [TotalMatches |-> 2, Wins |-> 1, Losses |-> 0, Draws |-> 1, CleanSheets |-> 1,
     TotalGoalsScored |-> 2, AverageGoalsPerMatch |-> 100, TotalFouls |-> 4]

InWindow(r, lo, hi) == lo <= r.Date /\ r.Date <= hi

Plays(r, team) == r.HomeTeam = team \/ r.AwayTeam = team

DirectFixtures(d, a, b) ==
    {i \in 1..Len(d) : \/ (d[i].HomeTeam = a /\ d[i].AwayTeam = b)
                       \/ (d[i].HomeTeam = b /\ d[i].AwayTeam = a)}

----------------------------------------------------------------------------
(* C1: a render pass never raises for any valid selection, team 2 left at  *)
(* "None" included: every pass runs through all sections to the footer.    *)
C1_PassReachesFooter ==
    /\ fault = ""
    /\ Len(rendered) > 0
    /\ rendered[Len(rendered)] = "Footer"

----------------------------------------------------------------------------
(* C2: for any record subset S and team T, calculate_insights(S, T) has    *)
(* Wins + Losses + Draws = Total Matches = the number of records in S.     *)
C2_SummaryAddsUp(ins, n) ==
    /\ ins.TotalMatches = n
    /\ ins.Wins + ins.Losses + ins.Draws = ins.TotalMatches

C2_WinsLossesDrawsTotal ==
    /\ PastFilter => C2_SummaryAddsUp(insights1, Len(filtered_df1))
    /\ IsPresent(insights2) => C2_SummaryAddsUp(insights2[1], Len(filtered_df2[1]))
    /\ \A S \in SubFrames(df), T \in AllTeams :
          C2_SummaryAddsUp(calculate_insights(S, T), Len(S))

C2_Witness ==
    /\ Completed
    /\ insights1.TotalMatches = 2
    /\ insights1.Wins = 1
    /\ insights1.Draws = 1
    /\ IsPresent(insights2) /\ insights2[1].Losses = 1

----------------------------------------------------------------------------
(* C3: on an empty record subset calculate_insights returns, for every     *)
(* team, the summary whose fields are all zero, the average included.      *)
C3_EmptySubsetAllZero ==
    /\ (PastFilter /\ Len(filtered_df1) = 0) => insights1 = ZeroSummary
    /\ (IsPresent(filtered_df2) /\ Len(filtered_df2[1]) = 0) => insights2 = Some(ZeroSummary)
    /\ \A T \in AllTeams : calculate_insights(<< >>, T) = ZeroSummary

C3_Witness ==
    /\ Completed
    /\ Len(filtered_df1) = 0
    /\ insights1.AverageGoalsPerMatch = 0
    /\ IsPresent(filtered_df2) /\ Len(filtered_df2[1]) = 0
    /\ \E i \in 1..Len(df) : Plays(df[i], selected_team1)

----------------------------------------------------------------------------
(* C4: head-to-head, for every pair of teams chosen as team 1 and team 2:  *)
(* team1_wins + team2_wins + draws = the number of direct fixtures.        *)
C4_HeadToHeadAddsUp ==
    /\ PastChart =>
          /\ team1_wins[1] + team2_wins[1] + draws[1]
                = Cardinality(DirectFixtures(df, selected_team1, selected_team2))
          /\ draws = <<draws[1], draws[1]>>
    /\ \A a \in AllTeams, b \in AllTeams :
          LET hh == head_to_head(df, a, b)
          IN  hh.team1_wins[1] + hh.team2_wins[1] + hh.draws[1]
                 = Cardinality(DirectFixtures(df, a, b))

C4_Witness ==
    /\ Completed
    /\ Cardinality(DirectFixtures(df, selected_team1, selected_team2)) = 2
    /\ team2_wins = Some(1)
    /\ draws = <<1, 1>>

----------------------------------------------------------------------------
(* C5: the top-scorers ranking has at most 6 entries, is sorted by         *)
(* descending TotalGoals, lists each team at most once with the sum of its *)
(* home and away goals over the league's records inside the date range,    *)
(* and leaves out no team with a strictly larger total than a listed one.  *)
RECURSIVE WindowGoals(_, _, _, _)
WindowGoals(d, league, dr, team) ==
    IF Len(d) = 0 THEN 0
    ELSE LET r == d[Len(d)]
         IN  WindowGoals(SubSeq(d, 1, Len(d) - 1), league, dr, team)
             + (IF r.League = league /\ InWindow(r, dr[1], dr[2])
                THEN (IF r.HomeTeam = team THEN r.HomeGoals ELSE 0)
                     + (IF r.AwayTeam = team THEN r.AwayGoals ELSE 0)
                ELSE 0)

WindowTeams(d, league, dr) ==
    {t \in AllTeams : \E i \in 1..Len(d) :
        d[i].League = league /\ InWindow(d[i], dr[1], dr[2]) /\ Plays(d[i], t)}

C5_RankingOK(ts, d, league, dr) ==
    /\ Len(ts) <= 6
    /\ \A i \in 1..Len(ts), j \in 1..Len(ts) :
          /\ i < j => ts[i].TotalGoals >= ts[j].TotalGoals
          /\ i # j => ts[i].Team # ts[j].Team
    /\ \A i \in 1..Len(ts) : ts[i].TotalGoals = WindowGoals(d, league, dr, ts[i].Team)
    /\ \A t \in WindowTeams(d, league, dr) \ {ts[i].Team : i \in 1..Len(ts)} :
          \A i \in 1..Len(ts) : WindowGoals(d, league, dr, t) <= ts[i].TotalGoals

C5_TopScorersRanking ==
    /\ IsPresent(top_scorers) =>
          C5_RankingOK(top_scorers[1], df, selected_league, date_range)
    /\ \A league \in Range(leagues(df)), dr \in CompleteRanges :
          C5_RankingOK(top_scorers_of(df, league, dr), df, league, dr)

C5_Witness ==
    /\ Completed
    /\ IsPresent(top_scorers)
    /\ Len(top_scorers[1]) = 6
    /\ Cardinality(WindowTeams(df, selected_league, date_range)) = 7
    /\ top_scorers[1][1].TotalGoals = 2
    /\ top_scorers[1][6].TotalGoals = 1
    /\ date_range # default_date_range(df)

----------------------------------------------------------------------------
(* C6: calculate_insights(S, T) equals the reference single scan for every *)
(* record subset S and team T, and on the two example records the summary  *)
(* of TeamX is 2 matches, 1 win, 0 losses, 1 draw, 1 clean sheet, 2 goals, *)
(* average 1.0, 4 fouls.                                                   *)
C6_EqualsReferenceScan ==
    /\ PastFilter => MatchesScan(insights1, filtered_df1, selected_team1)
    /\ IsPresent(insights2) => MatchesScan(insights2[1], filtered_df2[1], selected_team2)
    /\ \A S \in SubFrames(df), T \in AllTeams : MatchesScan(calculate_insights(S, T), S, T)
    /\ calculate_insights(ExampleDf, "TeamX") = ExampleSummary
    /\ (df = ExampleDf /\ selected_team1 = "TeamX" /\ date_range = <<1, 2>>) =>
          insights1 = ExampleSummary

C6_Witness ==
    /\ Completed
    /\ df = ExampleDf
    /\ selected_team1 = "TeamX"
    /\ date_range = <<1, 2>>
    /\ insights1 = ExampleSummary
    /\ selected_team2 = "TeamY"

----------------------------------------------------------------------------
(* C7: after any sequence of filter changes the in-memory dataset is the   *)
(* one loaded by the first pass, also when the sheet on disk has been      *)
(* replaced since, and a pass with the selections of an earlier pass binds *)
(* and shows what that pass did, whatever was selected in between.         *)
C7_DatasetAndOutputsFixed ==
    IsPresent(noted) =>
        /\ df = noted[1].df
        /\ data_cache = Some(noted[1].df)
        /\ selections = noted[1].selections => outputs = noted[1].outputs

C7_Witness ==
    /\ Completed
    /\ IsPresent(noted) /\ noted[1].later
    /\ selections = noted[1].selections
    /\ match_data # df
    /\ selected_league # leagues(df)[1]
    /\ date_range # default_date_range(df)
    /\ insights1.TotalMatches > 0
    /\ IsPresent(insights2)

----------------------------------------------------------------------------
(* C8: the subset passed to calculate_insights for team T and range        *)
(* [lo, hi] is exactly the records of the dataset in which T is home or    *)
(* away and lo <= Date <= hi.                                              *)
C8_ExactlyTheTeamWindow(fd, team) ==
    \A r \in Range(df) \cup Range(fd) :
        Count(fd, r) = IF Plays(r, team) /\ InWindow(r, date_range[1], date_range[2])
                       THEN Count(df, r) ELSE 0

C8_FilteredSubsetExact ==
    /\ PastFilter =>
          /\ C8_ExactlyTheTeamWindow(filtered_df1, selected_team1)
          /\ insights1.TotalMatches = Len(filtered_df1)
    /\ IsPresent(filtered_df2) =>
          /\ C8_ExactlyTheTeamWindow(filtered_df2[1], selected_team2)
          /\ insights2[1].TotalMatches = Len(filtered_df2[1])

C8_Witness ==
    /\ Completed
    /\ date_range[1] = date_range[2]
    /\ Len(filtered_df1) = 1
    /\ filtered_df1[1].Date = date_range[1]
    /\ \E i \in 1..Len(df) : Plays(df[i], selected_team1) /\ df[i].Date # date_range[1]
    /\ IsPresent(filtered_df2) /\ Len(filtered_df2[1]) = 1
    /\ \E i \in 1..Len(df) : ~Plays(df[i], selected_team2)

----------------------------------------------------------------------------
(* C9: head-to-head, for every pair of distinct teams: team1_losses =      *)
(* team2_wins, team2_losses = team1_wins, and both are non-negative.       *)
C9_LossesOK(hh) ==
    /\ hh.team1_losses = hh.team2_wins
    /\ hh.team2_losses = hh.team1_wins
    /\ hh.team1_losses[1] >= 0
    /\ hh.team2_losses[1] >= 0

C9_LossesAreOpponentWins ==
    /\ (PastChart /\ selected_team2 # selected_team1) =>
          C9_LossesOK([team1_wins |-> team1_wins, team2_wins |-> team2_wins,
                       team1_losses |-> team1_losses, team2_losses |-> team2_losses])
    /\ \A a \in AllTeams : \A b \in AllTeams \ {a} : C9_LossesOK(head_to_head(df, a, b))

C9_Witness ==
    /\ Completed
    /\ selected_team2 # selected_team1
    /\ team1_losses = Some(1)
    /\ team2_losses = Some(0)
    /\ draws = <<1, 1>>

----------------------------------------------------------------------------
(* C10: for fixed team 1 and team 2 the head-to-head counts are the same   *)
(* under every league and date range (the per-team summaries are not).     *)
C10_HeadToHeadIgnoresWindow ==
    PastFilter =>
    \A league \in Range(leagues(df)), dr \in CompleteRanges :
        \E rp \in {RenderPass(df, league, selected_team1, selected_team2, dr)} :
            <<rp.team1_wins, rp.team2_wins, rp.draws, rp.team1_losses, rp.team2_losses>>
               = <<team1_wins, team2_wins, draws, team1_losses, team2_losses>>

C10_Witness ==
    /\ Completed
    /\ team1_wins = Some(1)
    /\ date_range # default_date_range(df)
    /\ Len(head_to_head_data(df, selected_team1, selected_team2)) = 2
    /\ Len(SelectSeq(head_to_head_data(df, selected_team1, selected_team2),
                     LAMBDA r : InWindow(r, date_range[1], date_range[2]))) = 1
    /\ \E dr \in CompleteRanges :
          calculate_insights(TeamFilter(df, selected_team1, dr), selected_team1) # insights1

====
